---- MODULE Spec2Model ----
(***************************************************************************)
(* Model of process_pose_data/analyze.py: reconstruction of 3D poses for   *)
(* one timestamp from 2D poses of several cameras.                         *)
(*                                                                         *)
(* Data frames are sequences of rows (records); a column a stage has not   *)
(* added yet holds None/FALSE.  Scores are small integers: pose pair       *)
(* scores in units of max_pose_pair_score, evaluation scores in units of   *)
(* max_evaluation_score.  NaN is numpy's not-a-number, None is Python's    *)
(* None / pandas' NA.                                                      *)
(***************************************************************************)
EXTENDS Integers, Sequences, FiniteSets, TLC

\* ---- bounds of the model ----
MaxPoses == 3
NumCameras == 3
MaxTimestamps == 2
MaxGroupScore == 1
MaxPosesPerCamera == 2
MaxNodes == 4
MaxInitialThreshold == 3
MaxDepth == 8
MonotoneNodes == 6
MaxMissingPairs == 4
MaxPosePairs == 3
MaxImagePoints == 7

\* ---- program constants (defaults of reconstruct_poses_3d_timestamp) ----
default_max_pose_pair_score == 1
default_initial_edge_threshold == 2
default_max_evaluation_score == 1

NaN == 0 - 1
None == 0 - 2

VARIABLES
    pc,                     \* position in the computation
    poses_2d,               \* poses_2d_df_timestamp: rows [pose_id, camera_id, timestamp]
    pose_pairs,             \* the pose pair data frame
    best_score_indices,     \* result of the mutual best match selection
    reselected,             \* result of the selection applied to its own output
    initial_edge_threshold, \* parameters of the partitioner
    evaluation_function,
    min_evaluation_score,
    max_evaluation_score,
    pose_graph,             \* edges of the correspondence graph, each a set {u, v}
    stack,                  \* call stack of generate_k_edge_subgraph_list_iteratively
    subgraph_list,          \* accepted subgraphs, in the order of the returned list
    evaluated,              \* the evaluation function's values seen so far
    rejected,               \* history: candidates whose score was out of bounds
    first_run,              \* result of an earlier run on the same graph
    poses_3d,               \* rows of the consolidated data frame
    image_points_1,         \* shapes of the arguments of triangulate_image_points
    image_points_2,
    object_points           \* shape of its result

vars == <<pc, poses_2d, pose_pairs, best_score_indices, reselected,
          initial_edge_threshold, evaluation_function, min_evaluation_score,
          max_evaluation_score, pose_graph, stack, subgraph_list, evaluated,
          rejected, first_run, poses_3d, image_points_1, image_points_2,
          object_points>>

pairVars == <<poses_2d, pose_pairs, best_score_indices, reselected>>
paramVars == <<initial_edge_threshold, evaluation_function,
               min_evaluation_score, max_evaluation_score>>
graphVars == <<pose_graph, stack, subgraph_list, evaluated, rejected,
               first_run, poses_3d>>
triangulationVars == <<image_points_1, image_points_2, object_points>>

\* an array of no image points
NoImagePoints == <<0, 2>>

\* ---- sequences ----
Range(s) == {s[i] : i \in 1..Len(s)}

RECURSIVE UniqueSeq(_, _)
\* pandas Series.unique(): the distinct values in order of first appearance
UniqueSeq(s, seen) ==
    IF s = <<>> THEN <<>>
    ELSE IF Head(s) \in seen THEN UniqueSeq(Tail(s), seen)
    ELSE <<Head(s)>> \o UniqueSeq(Tail(s), seen \cup {Head(s)})

\* itertools.permutations(s, 2) in the place of combinations
Permutations2(s) ==
    LET pairs == {p \in (1..Len(s)) \X (1..Len(s)) : p[1] # p[2]}
    IN  [n \in 1..Cardinality(pairs) |->
            LET p == CHOOSE q \in pairs :
                        Cardinality({r \in pairs : r[1] < q[1]
                                        \/ (r[1] = q[1] /\ r[2] < q[2])}) = n - 1
            IN  <<s[p[1]], s[p[2]]>>]

RECURSIVE Combinations2(_)
\* itertools.combinations(s, 2)
Combinations2(s) ==
    IF Len(s) < 2 THEN <<>>
    ELSE [j \in 1..(Len(s) - 1) |-> <<s[1], s[j + 1]>>] \o Combinations2(Tail(s))

\* itertools.product(sa, sb)
Product(sa, sb) ==
    [n \in 1..(Len(sa) * Len(sb)) |->
        <<sa[((n - 1) \div Len(sb)) + 1], sb[((n - 1) % Len(sb)) + 1]>>]

\* ---- generate_pose_pairs_timestamp ----
\* the timestamp of row 0 alone (line 46)
FirstTimestamp(df) == IF df = <<>> THEN {} ELSE {df[1].timestamp}

Timestamps(df) == {df[i].timestamp : i \in 1..Len(df)}

CameraIds(df) == UniqueSeq([i \in 1..Len(df) |-> df[i].camera_id], {})

\* df.loc[df['camera_id'] == camera_id].index.tolist()
PoseIdsOfCamera(df, camera_id) ==
    LET rows == SelectSeq(df, LAMBDA r : r.camera_id = camera_id)
    IN  [i \in 1..Len(rows) |-> rows[i].pose_id]

RECURSIVE PoseIdPairs(_, _)
PoseIdPairs(df, camera_pairs) ==
    IF camera_pairs = <<>> THEN <<>>
    ELSE Product(PoseIdsOfCamera(df, camera_pairs[1][1]),
                 PoseIdsOfCamera(df, camera_pairs[1][2]))
         \o PoseIdPairs(df, Tail(camera_pairs))

\* df.loc[pose_id] for an index of distinct pose ids
RowOf(df, pose_id) == df[CHOOSE i \in 1..Len(df) : df[i].pose_id = pose_id]

\* the two coordinates of the one keypoint that is followed
CoordinateIndex == {1, 2}

\* keypoint_coordinates_3d where the coordinates are not followed: the
\* triangulated keypoint of every pair is at the origin
Origin == [c \in CoordinateIndex |-> 0]

PairRow(a, b, ca, cb, t) ==
    [pose_id_a |-> a, pose_id_b |-> b, camera_id_a |-> ca, camera_id_b |-> cb,
     timestamp |-> t, score |-> None, match |-> FALSE, group_match |-> FALSE,
     match_group_label |-> None, pose_3d_id |-> None,
     keypoint_coordinates_3d |-> None]

generate_pose_pairs_timestamp(df) ==
    LET pose_id_pairs == PoseIdPairs(df, Combinations2(CameraIds(df)))
    IN  [n \in 1..Len(pose_id_pairs) |->
            LET ra == RowOf(df, pose_id_pairs[n][1])
                rb == RowOf(df, pose_id_pairs[n][2])
            IN  PairRow(ra.pose_id, rb.pose_id, ra.camera_id, rb.camera_id,
                        ra.timestamp)]

\* ---- extract_best_score_indices_timestamp_camera_pair ----
IndexOf(row) == <<row.pose_id_a, row.pose_id_b>>

\* Series.argmin() in the place of idxmin(): the position of the minimal row
\* within its group, read as a position of the frame
IdxminAsPosition(df, S) ==
    LET valid == {i \in S : df[i].score # NaN}
        best == CHOOSE i \in valid : \A j \in valid :
                    \/ df[i].score < df[j].score
                    \/ (df[i].score = df[j].score /\ i <= j)
    IN  IF valid = {} THEN {}
        ELSE {IndexOf(df[Cardinality({j \in S : j <= best})])}

\* Series.idxmin() over the rows at positions S: the index of the first row, in
\* the order of the frame, of minimal score, not-a-number skipped.  The result
\* is a set: empty when every score is not-a-number (idxmin gives NaN, which
\* dropna() removes), else the one index.
Idxmin(df, S) ==
    LET valid == {i \in S : df[i].score # NaN}
    IN  IF valid = {} THEN {}
        ELSE {IndexOf(df[CHOOSE i \in valid : \A j \in valid :
                \/ df[i].score < df[j].score
                \/ (df[i].score = df[j].score /\ i <= j)])}

\* df['score'].groupby('pose_id_b').idxmin().dropna()
best_a_score_for_b(df) ==
    UNION {Idxmin(df, {i \in 1..Len(df) : df[i].pose_id_b = b}) :
            b \in {df[i].pose_id_b : i \in 1..Len(df)}}

\* df['score'].groupby('pose_id_a').idxmin().dropna()
best_b_score_for_a(df) ==
    UNION {Idxmin(df, {i \in 1..Len(df) : df[i].pose_id_a = a}) :
            a \in {df[i].pose_id_a : i \in 1..Len(df)}}

\* the union in the place of the intersection of line 664
extract_best_of_either_side(df) ==
    best_a_score_for_b(df) \cup best_b_score_for_a(df)

extract_best_score_indices_timestamp_camera_pair(df) ==
    best_a_score_for_b(df) \cap best_b_score_for_a(df)

\* df.loc[indices] as far as the set of its rows goes
Loc(df, indices) == SelectSeq(df, LAMBDA r : IndexOf(r) \in indices)

\* df.sort_index(): the rows in the order of their (pose_id_a, pose_id_b)
IndexLess(r, s) ==
    \/ r.pose_id_a < s.pose_id_a
    \/ (r.pose_id_a = s.pose_id_a /\ r.pose_id_b < s.pose_id_b)

SortIndex(df) ==
    [n \in 1..Len(df) |->
        df[CHOOSE i \in 1..Len(df) :
            Cardinality({j \in 1..Len(df) : IndexLess(df[j], df[i])}) = n - 1]]

\* the rows of one group of df.groupby(['camera_id_a', 'camera_id_b'])
CameraPairs(df) == {<<df[i].camera_id_a, df[i].camera_id_b>> : i \in 1..Len(df)}

CameraPairGroup(df, cp) ==
    SelectSeq(df, LAMBDA r : r.camera_id_a = cp[1] /\ r.camera_id_b = cp[2])

\* lines 150-152: the best score indices of every camera pair group
BestScoreIndices(df) ==
    UNION {extract_best_score_indices_timestamp_camera_pair(CameraPairGroup(df, cp)) :
            cp \in CameraPairs(df)}

\* ---- the correspondence graph ----
\* an edge for every row, flagged match or not
all_pairs_to_pose_graph(df) ==
    {{df[i].pose_id_a, df[i].pose_id_b} : i \in 1..Len(df)}

\* pose_pair_df_to_pose_graph: one edge per row flagged match
pose_pair_df_to_pose_graph(df) ==
    {{df[i].pose_id_a, df[i].pose_id_b} : i \in {j \in 1..Len(df) : df[j].match}}

NodesOf(E) == UNION E

\* graph.subgraph(nodes): the edges with both ends in nodes
Subgraph(E, nodes) == {e \in E : e \subseteq nodes}

\* the edges with exactly one end in S
CutSize(E, S) == Cardinality({e \in E : e \cap S # {} /\ e \ S # {}})

\* u and v cannot be separated by removing fewer than k edges of (N, E)
KEdgeConnected(N, E, u, v, k) ==
    \/ u = v
    \/ \A S \in SUBSET (N \ {u, v}) : CutSize(E, S \cup {u}) >= k

\* the nodes that are k-edge-connected to a node or next to it: classes
\* that may overlap
k_edge_neighbourhoods(N, E, k) ==
    {{v \in N : KEdgeConnected(N, E, u, v, k) \/ {u, v} \in E} : u \in N}

\* the connected components, whatever the threshold
connected_components(N, E, k) ==
    {{v \in N : KEdgeConnected(N, E, u, v, 1)} : u \in N}

\* nx.k_edge_components(graph, k) of the graph (N, E): the classes of nodes
\* that are pairwise k-edge-connected in the graph
k_edge_components(N, E, k) ==
    {{v \in N : KEdgeConnected(N, E, u, v, k)} : u \in N}

\* ---- generate_k_edge_subgraph_list_iteratively ----
\* one call: the graph is the subgraph of the pose graph E on nodes, the loop
\* of line 816 has the components of that graph before it
Frame(E, nodes, k) ==
    [nodes |-> nodes, k |-> k,
     components |-> k_edge_components(nodes, Subgraph(E, nodes), k)]

\* the recursive call made with the threshold it was given
SameThreshold(k) == k

NextThreshold(k) == k + 1

\* evaluation scores below, at and above a bound of max_evaluation_score
EvaluationValues == 0..(default_max_evaluation_score + 1)

\* pose_3d_dispersion: the norm of the standard deviation of the edges'
\* centroids; 0 for a single edge, any value >= 0 for more
pose_3d_dispersion(E) ==
    IF Cardinality(E) = 1 THEN {0} ELSE EvaluationValues

\* the values evaluation_function(subgraph) may take: an evaluation function
\* is a function, so a subgraph evaluated before gets the same score
EvaluationScores(nodes) ==
    LET seen == {e \in evaluated : e[1] = nodes}
    IN  IF seen # {} THEN {e[2] : e \in seen}
        ELSE IF evaluation_function = "pose_3d_dispersion"
             THEN pose_3d_dispersion(Subgraph(pose_graph, nodes))
             ELSE EvaluationValues \cup {NaN}

\* the test of line 825 alone: the minimum is not looked at
ScoreBelowMaxOnly(score) ==
    max_evaluation_score = None \/ (score # NaN /\ score <= max_evaluation_score)

\* lines 823-826; a comparison with not-a-number is false
ScoreInBounds(score) ==
    /\ (min_evaluation_score = None
            \/ (score # NaN /\ score >= min_evaluation_score))
    /\ (max_evaluation_score = None
            \/ (score # NaN /\ score <= max_evaluation_score))

Top == stack[Len(stack)]

DropComponent(c) ==
    [stack EXCEPT ![Len(stack)].components = @ \ {c}]

\* lines 817-821: a component of one node, or without an edge, is passed over
SkipComponent ==
    /\ pc = "partition"
    /\ \E c \in Top.components :
        /\ Cardinality(c) < 2 \/ Subgraph(pose_graph, c) = {}
        /\ stack' = DropComponent(c)
    /\ UNCHANGED <<pc, triangulationVars, pairVars, paramVars, pose_graph, subgraph_list,
                   evaluated, rejected, first_run, poses_3d>>

\* lines 822-828: a score within the bounds, the subgraph joins the list
AcceptComponent ==
    /\ pc = "partition"
    /\ \E c \in Top.components :
        /\ Cardinality(c) >= 2 /\ Subgraph(pose_graph, c) # {}
        /\ \E score \in EvaluationScores(c) :
            /\ ScoreInBounds(score)
            /\ evaluated' = evaluated \cup {<<c, score>>}
            /\ subgraph_list' = Append(subgraph_list,
                    [nodes |-> c, k |-> Top.k, score |-> score])
        /\ stack' = DropComponent(c)
    /\ UNCHANGED <<pc, triangulationVars, pairVars, paramVars, pose_graph, rejected, first_run,
                   poses_3d>>

\* lines 829-835: a score out of bounds, the call on the subgraph itself
RecurseComponent ==
    /\ pc = "partition"
    /\ Len(stack) < MaxDepth
    /\ \E c \in Top.components :
        /\ Cardinality(c) >= 2 /\ Subgraph(pose_graph, c) # {}
        /\ \E score \in EvaluationScores(c) :
            /\ ~ScoreInBounds(score)
            /\ evaluated' = evaluated \cup {<<c, score>>}
            /\ rejected' = rejected \cup
                    {[nodes |-> c, k |-> Top.k, score |-> score]}
        /\ stack' = Append(DropComponent(c), Frame(pose_graph, c, NextThreshold(Top.k)))
    /\ UNCHANGED <<pc, triangulationVars, pairVars, paramVars, pose_graph, subgraph_list,
                   first_run, poses_3d>>

\* line 836: the loop is over, the call returns its list to its caller
ReturnList ==
    /\ pc = "partition"
    /\ Top.components = {}
    /\ stack' = SubSeq(stack, 1, Len(stack) - 1)
    /\ pc' = IF Len(stack) = 1 THEN "stamp" ELSE "partition"
    /\ UNCHANGED <<triangulationVars, pairVars, paramVars, pose_graph, subgraph_list, evaluated,
                   rejected, first_run, poses_3d>>

\* ---- identify_match_groups_iteratively ----
\* lines 750-753: the columns the function adds
ResetColumns(df) ==
    [n \in 1..Len(df) |->
        [df[n] EXCEPT !.group_match = FALSE, !.match_group_label = None,
                      !.pose_3d_id = None]]

\* lines 749-763: the graph of the matches; without an edge the frame is
\* returned as it is, else the subgraph list is generated
IdentifyMatchGroups ==
    /\ pc = "identify"
    /\ pose_pairs' = ResetColumns(pose_pairs)
    /\ pose_graph' = pose_pair_df_to_pose_graph(pose_pairs)
    /\ subgraph_list' = <<>>
    /\ IF pose_graph' = {}
       THEN pc' = "consolidate" /\ stack' = <<>>
       ELSE /\ pc' = "partition"
            /\ stack' = <<Frame(pose_graph', NodesOf(pose_graph'),
                                initial_edge_threshold)>>
    /\ UNCHANGED <<triangulationVars, poses_2d, best_score_indices, reselected, paramVars,
                   evaluated, rejected, first_run, poses_3d>>

RowEdge(r) == {r.pose_id_a, r.pose_id_b}

Max(S) == CHOOSE x \in S : \A y \in S : y <= x

\* uuid4().hex of the n-th pass of the loop of line 764: a fresh identifier
uuid4(n) == n

\* enumerate(subgraph_list, 1)
LabelFromOne(n) == n

\* a label that does not follow the loop
LabelOfFirst(n) == 0

\* enumerate(subgraph_list) counts from 0
LabelOf(n) == n - 1

\* lines 764-774: the rows of the edges of each subgraph, in the order of the
\* list (a later subgraph overwrites an earlier one)
StampRows(df, E, list) ==
    [n \in 1..Len(df) |->
        LET hits == {i \in 1..Len(list) :
                        RowEdge(df[n]) \in Subgraph(E, list[i].nodes)}
        IN  IF hits = {} THEN df[n]
            ELSE [df[n] EXCEPT !.group_match = TRUE,
                               !.match_group_label = LabelOf(Max(hits)),
                               !.pose_3d_id = uuid4(Max(hits))]]

StampGroups ==
    /\ pc = "stamp"
    /\ pose_pairs' = StampRows(pose_pairs, pose_graph, subgraph_list)
    /\ pc' = "consolidate"
    /\ UNCHANGED <<triangulationVars, poses_2d, best_score_indices, reselected, paramVars,
                   graphVars>>

\* ---- consolidate_poses_3d ----
GroupMatches(df) == SelectSeq(df, LAMBDA r : r.group_match)

LabelsOf(df, pose_3d_id) ==
    {df[i].match_group_label :
        i \in {j \in 1..Len(df) : df[j].pose_3d_id = pose_3d_id}}

\* lines 844-846 and 859-860: more than one timestamp, no timestamp at all
\* (timestamps[0] of an empty array) or two labels for one pose_3d_id
ConsolidateFails(df) ==
    \/ Cardinality(Timestamps(df)) # 1
    \/ \E r \in Range(df) : Cardinality(LabelsOf(df, r.pose_3d_id)) > 1

\* the values that are not not-a-number, in their order
Valid(xs) == SelectSeq(xs, LAMBDA x : x # NaN)

\* the values in ascending order: the value at place i has fewer than i
\* values below it and at least i values not above it
Sorted(s) ==
    [i \in 1..Len(s) |->
        CHOOSE v \in Range(s) :
            /\ Cardinality({j \in 1..Len(s) : s[j] < v}) < i
            /\ Cardinality({j \in 1..Len(s) : s[j] <= v}) >= i]

\* the middle of a sorted sequence: the middle value, or the mean of the two
\* middle values; coordinates are in half units, so the mean is whole
MiddleOf(s) ==
    LET n == Len(s)
    IN  IF n = 0 THEN NaN
        ELSE IF n % 2 = 1 THEN s[(n + 1) \div 2]
        ELSE (s[n \div 2] + s[n \div 2 + 1]) \div 2

\* np.median: a not-a-number among the values is the result
median(xs) ==
    IF \E i \in 1..Len(xs) : xs[i] = NaN THEN NaN ELSE MiddleOf(Sorted(xs))

\* np.nanmedian of the values of one coordinate (axis 0 of the stack)
nanmedian(xs) == MiddleOf(Sorted(Valid(xs)))

\* lines 847-865: one row per pose_3d_id
Poses3dOf(df) ==
    {[pose_3d_id |-> id,
      timestamp |-> CHOOSE t \in Timestamps(df) : TRUE,
      match_group_label |-> CHOOSE l \in LabelsOf(df, id) : TRUE,
      keypoint_coordinates_3d |->
        LET group_df == SelectSeq(df, LAMBDA r : r.pose_3d_id = id)
        IN  [c \in CoordinateIndex |->
                nanmedian([i \in 1..Len(group_df) |->
                            group_df[i].keypoint_coordinates_3d[c]])]] :
        id \in {df[i].pose_3d_id : i \in 1..Len(df)}}

ConsolidatePoses3d ==
    /\ pc = "consolidate"
    /\ IF ConsolidateFails(GroupMatches(pose_pairs))
       THEN pc' = "error" /\ poses_3d' = {}
       ELSE pc' = "done" /\ poses_3d' = Poses3dOf(GroupMatches(pose_pairs))
    /\ UNCHANGED <<triangulationVars, pairVars, paramVars, pose_graph, stack, subgraph_list,
                   evaluated, rejected, first_run>>

\* ---- consolidate_poses_3d on a frame of stamped pose pairs ----
\* coordinates in half units, and not-a-number for an invalid keypoint
KeypointValues == {0, 2, NaN}

\* the pose pairs 1-2, 2-3, ... of poses on cameras of their own; row n is
\* unmarked (group 0) or in the match group groups[n]
StampedFrame(groups, keypoints) ==
    [n \in DOMAIN groups |->
        [PairRow(n, n + 1, n, n + 1, 1)
            EXCEPT !.score = 0,
                   !.match = TRUE,
                   !.keypoint_coordinates_3d = keypoints[n],
                   !.group_match = (groups[n] # 0),
                   !.match_group_label =
                        IF groups[n] = 0 THEN None ELSE LabelOf(groups[n]),
                   !.pose_3d_id =
                        IF groups[n] = 0 THEN None ELSE uuid4(groups[n])]]

\* the groups are numbered in the order of the rows; rows that share a pose
\* are not in two groups, and a group is a run of consecutive rows
InitConsolidate ==
    /\ pc = "consolidate"
    /\ poses_2d = <<>>
    /\ \E n \in 0..MaxPosePairs :
        \E groups \in [1..n -> 0..n] :
        \E keypoints \in [1..n -> [CoordinateIndex -> KeypointValues]] :
            /\ \A i \in 1..n : \A g \in 1..(groups[i] - 1) :
                    \E j \in 1..(i - 1) : groups[j] = g
            /\ \A i \in 1..(n - 1) :
                    groups[i] = 0 \/ groups[i + 1] = 0 \/ groups[i] = groups[i + 1]
            /\ \A i, j \in 1..n :
                    (i < j /\ groups[i] # 0 /\ groups[i] = groups[j])
                        => \A m \in i..j : groups[m] = groups[i]
            /\ pose_pairs = StampedFrame(groups, keypoints)
    /\ best_score_indices = {}
    /\ reselected = {}
    /\ initial_edge_threshold = default_initial_edge_threshold
    /\ evaluation_function = "pose_3d_dispersion"
    /\ min_evaluation_score = None
    /\ max_evaluation_score = default_max_evaluation_score
    /\ pose_graph = {}
    /\ stack = <<>>
    /\ subgraph_list = <<>>
    /\ evaluated = {}
    /\ rejected = {}
    /\ first_run = <<>>
    /\ poses_3d = {}
    /\ image_points_1 = NoImagePoints
    /\ image_points_2 = NoImagePoints
    /\ object_points = None

SpecConsolidate == InitConsolidate /\ [][ConsolidatePoses3d]_vars

\* ---- extract_3d_poses_timestamp: the partitioner and the consolidation ----
NodePairs == {p \in (1..MaxNodes) \X (1..MaxNodes) : p[1] < p[2]}

PairLess(p, q) == p[1] < q[1] \/ (p[1] = q[1] /\ p[2] < q[2])

\* the pairs of P as a sequence in the order of the index
PairSeq(P) ==
    [n \in 1..Cardinality(P) |->
        CHOOSE p \in P : Cardinality({q \in P : PairLess(q, p)}) = n - 1]

\* a frame of analysed pose pairs: one pose per camera, every pair of poses a
\* row, the rows of matches flagged
MatchFrame(P, matches) ==
    LET ps == PairSeq(P)
    IN  [n \in 1..Len(ps) |->
            [PairRow(ps[n][1], ps[n][2], ps[n][1], ps[n][2], 1)
                EXCEPT !.score = 0, !.match = (ps[n] \in matches),
                       !.keypoint_coordinates_3d = Origin]]

Degree(matches, v) == Cardinality({p \in matches : p[1] = v \/ p[2] = v})

\* The pose ids are names: every graph is, up to the names of its poses, one
\* whose degrees do not increase with the pose id.
InitExtract ==
    /\ pc = "identify"
    /\ poses_2d = <<>>
    /\ \E matches \in SUBSET NodePairs :
        /\ \A v \in 1..(MaxNodes - 1) :
                Degree(matches, v) >= Degree(matches, v + 1)
        /\ pose_pairs = MatchFrame(NodePairs, matches)
    /\ best_score_indices = {}
    /\ reselected = {}
    /\ initial_edge_threshold \in 1..MaxInitialThreshold
    /\ evaluation_function = "custom"
    /\ min_evaluation_score \in {None, default_max_evaluation_score}
    /\ max_evaluation_score \in {None, default_max_evaluation_score}
    /\ pose_graph = {}
    /\ stack = <<>>
    /\ subgraph_list = <<>>
    /\ evaluated = {}
    /\ rejected = {}
    /\ first_run = <<>>
    /\ poses_3d = {}
    /\ image_points_1 = NoImagePoints
    /\ image_points_2 = NoImagePoints
    /\ object_points = None

Partition == SkipComponent \/ AcceptComponent \/ RecurseComponent \/ ReturnList

NextExtract == IdentifyMatchGroups \/ Partition \/ StampGroups \/ ConsolidatePoses3d

SpecExtract == InitExtract /\ [][NextExtract]_vars

SpecExtractFair == SpecExtract /\ WF_vars(NextExtract)

\* ---- identify_match_groups_iteratively on a frame with an invalid score ----
\* the frames of InitExtract, one pose pair of which may have the score
\* not-a-number
InitIdentify ==
    /\ pc = "identify"
    /\ poses_2d = <<>>
    /\ \E matches \in SUBSET NodePairs : \E invalid \in SUBSET NodePairs :
        /\ Cardinality(invalid) <= 1
        /\ \A v \in 1..(MaxNodes - 1) :
                Degree(matches, v) >= Degree(matches, v + 1)
        /\ pose_pairs =
                LET df == MatchFrame(NodePairs, matches)
                IN  [n \in 1..Len(df) |->
                        IF <<df[n].pose_id_a, df[n].pose_id_b>> \in invalid
                        THEN [df[n] EXCEPT !.score = NaN]
                        ELSE df[n]]
    /\ best_score_indices = {}
    /\ reselected = {}
    /\ initial_edge_threshold \in 1..MaxInitialThreshold
    /\ evaluation_function = "custom"
    /\ min_evaluation_score \in {None, default_max_evaluation_score}
    /\ max_evaluation_score \in {None, default_max_evaluation_score}
    /\ pose_graph = {}
    /\ stack = <<>>
    /\ subgraph_list = <<>>
    /\ evaluated = {}
    /\ rejected = {}
    /\ first_run = <<>>
    /\ poses_3d = {}
    /\ image_points_1 = NoImagePoints
    /\ image_points_2 = NoImagePoints
    /\ object_points = None

SpecIdentify == InitIdentify /\ [][NextExtract]_vars

\* ---- generate_k_edge_subgraph_list_iteratively at two initial thresholds ----
MonotonePairs ==
    {p \in (1..MonotoneNodes) \X (1..MonotoneNodes) : p[1] < p[2]}

\* dense graphs of matches: of the pairs of MonotoneNodes poses, one per
\* camera, at most MaxMissingPairs are not matches; pose ids are names as in
\* InitExtract
InitMonotone ==
    /\ pc = "identify"
    /\ poses_2d = <<>>
    /\ \E missing \in SUBSET MonotonePairs :
        /\ Cardinality(missing) <= MaxMissingPairs
        /\ \A v \in 1..(MonotoneNodes - 1) :
                Degree(MonotonePairs \ missing, v)
                    >= Degree(MonotonePairs \ missing, v + 1)
        /\ pose_pairs = MatchFrame(MonotonePairs, MonotonePairs \ missing)
    /\ best_score_indices = {}
    /\ reselected = {}
    /\ initial_edge_threshold \in 1..MaxInitialThreshold
    /\ evaluation_function = "custom"
    /\ min_evaluation_score = None
    /\ max_evaluation_score = default_max_evaluation_score
    /\ pose_graph = {}
    /\ stack = <<>>
    /\ subgraph_list = <<>>
    /\ evaluated = {}
    /\ rejected = {}
    /\ first_run = <<>>
    /\ poses_3d = {}
    /\ image_points_1 = NoImagePoints
    /\ image_points_2 = NoImagePoints
    /\ object_points = None

\* line 757 called once more on the same graph, with the same evaluation
\* function and bounds and a higher initial threshold; the list of the
\* first call is kept
RaiseThreshold ==
    /\ pc = "stamp"
    /\ first_run = <<>>
    /\ first_run' = <<subgraph_list>>
    /\ \E k \in (initial_edge_threshold + 1)..(MaxInitialThreshold + 1) :
        /\ initial_edge_threshold' = k
        /\ stack' = <<Frame(pose_graph, NodesOf(pose_graph), k)>>
    /\ subgraph_list' = <<>>
    /\ pc' = "partition"
    /\ UNCHANGED <<triangulationVars, pairVars, evaluation_function, min_evaluation_score,
                   max_evaluation_score, pose_graph, evaluated, rejected,
                   poses_3d>>

NextMonotone == IdentifyMatchGroups \/ Partition \/ RaiseThreshold

SpecMonotone == InitMonotone /\ [][NextMonotone]_vars

\* ---- the mutual best match selection of one camera pair group ----
\* the poses of camera A are 1..MaxPosesPerCamera, those of camera B follow
GroupPairs ==
    (1..MaxPosesPerCamera) \X ((MaxPosesPerCamera + 1)..(2 * MaxPosesPerCamera))

\* the scored pairs P of one camera pair, in the order of the index (line 149)
ScoredGroup(P, scores) ==
    LET ps == PairSeq(P)
    IN  [n \in 1..Len(ps) |->
            [PairRow(ps[n][1], ps[n][2], 1, 2, 1)
                EXCEPT !.score = scores[ps[n]],
                       !.keypoint_coordinates_3d = Origin]]

\* a group after the filters: any of the pairs of the two cameras may be gone
InitSelect ==
    /\ pc = "select"
    /\ poses_2d = <<>>
    /\ \E P \in SUBSET GroupPairs : \E scores \in [P -> 0..MaxGroupScore] :
            pose_pairs = ScoredGroup(P, scores)
    /\ best_score_indices = {}
    /\ reselected = {}
    /\ initial_edge_threshold = default_initial_edge_threshold
    /\ evaluation_function = "pose_3d_dispersion"
    /\ min_evaluation_score = None
    /\ max_evaluation_score = default_max_evaluation_score
    /\ pose_graph = {}
    /\ stack = <<>>
    /\ subgraph_list = <<>>
    /\ evaluated = {}
    /\ rejected = {}
    /\ first_run = <<>>
    /\ poses_3d = {}
    /\ image_points_1 = NoImagePoints
    /\ image_points_2 = NoImagePoints
    /\ object_points = None

ExtractBestScoreIndices ==
    /\ pc = "select"
    /\ best_score_indices' =
            extract_best_score_indices_timestamp_camera_pair(pose_pairs)
    /\ pc' = "selected"
    /\ UNCHANGED <<triangulationVars, poses_2d, pose_pairs, reselected, paramVars, graphVars>>

\* the selection applied to the pairs it retained, their scores unchanged
ExtractAgain ==
    /\ pc = "selected"
    /\ reselected' = extract_best_score_indices_timestamp_camera_pair(
                        Loc(pose_pairs, best_score_indices))
    /\ pc' = "reselected"
    /\ UNCHANGED <<triangulationVars, poses_2d, pose_pairs, best_score_indices, paramVars, graphVars>>

NextSelect == ExtractBestScoreIndices \/ ExtractAgain

SpecSelect == InitSelect /\ [][NextSelect]_vars

\* ---- triangulate_image_points ----
Size(shape) == shape[1] * shape[2]

\* the last axes alone compared
LastAxesDiffer(shape_1, shape_2) == shape_1[2] # shape_2[2]

\* line 421
ShapesDiffer(shape_1, shape_2) == shape_1 # shape_2

\* line 460: np.squeeze drops the axes of length 1
Squeeze(shape) == SelectSeq(shape, LAMBDA n : n # 1)

\* arrays of image points are followed by their shapes (number of points, 2)
InitTriangulate ==
    /\ pc = "triangulate"
    /\ image_points_1 \in {<<n, 2>> : n \in 0..MaxImagePoints}
    /\ image_points_2 \in {<<n, 2>> : n \in 0..MaxImagePoints}
    /\ object_points = None
    /\ poses_2d = <<>>
    /\ pose_pairs = <<>>
    /\ best_score_indices = {}
    /\ reselected = {}
    /\ initial_edge_threshold = default_initial_edge_threshold
    /\ evaluation_function = "pose_3d_dispersion"
    /\ min_evaluation_score = None
    /\ max_evaluation_score = default_max_evaluation_score
    /\ pose_graph = {}
    /\ stack = <<>>
    /\ subgraph_list = <<>>
    /\ evaluated = {}
    /\ rejected = {}
    /\ first_run = <<>>
    /\ poses_3d = {}

\* lines 419-462: an empty argument gives np.zeros((0, 3)) before the shapes
\* are compared; arguments of different shapes raise ValueError; else one 3D
\* point per pair of image points, squeezed (the reshape of line 461 is not
\* assigned)
TriangulateImagePoints ==
    /\ pc = "triangulate"
    /\ IF Size(image_points_1) = 0 \/ Size(image_points_2) = 0
       THEN pc' = "triangulated" /\ object_points' = <<0, 3>>
       ELSE IF ShapesDiffer(image_points_1, image_points_2)
       THEN pc' = "error" /\ object_points' = None
       ELSE /\ pc' = "triangulated"
            /\ object_points' = Squeeze(<<image_points_1[1], 1, 3>>)
    /\ UNCHANGED <<image_points_1, image_points_2, pairVars, paramVars,
                   graphVars>>

SpecTriangulate == InitTriangulate /\ [][TriangulateImagePoints]_vars

\* ---- reconstruct_poses_3d_timestamp ----
\* camera ids and timestamps are names: the first row has name 1, a new name
\* is the least one not seen in the rows before
Named(f, n, max) ==
    \A i \in 1..n : f[i] <= max /\ \A v \in 1..(f[i] - 1) : \E j \in 1..(i - 1) : f[j] = v

InitReconstruct ==
    /\ pc = "start"
    /\ \E n \in 0..MaxPoses :
        \E cameras \in [1..n -> 1..NumCameras] :
        \E timestamps \in [1..n -> 1..MaxTimestamps] :
            /\ Named(cameras, n, NumCameras)
            /\ Named(timestamps, n, MaxTimestamps)
            /\ poses_2d = [i \in 1..n |->
                    [pose_id |-> i, camera_id |-> cameras[i],
                     timestamp |-> timestamps[i]]]
    /\ pose_pairs = <<>>
    /\ best_score_indices = {}
    /\ reselected = {}
    /\ initial_edge_threshold \in 1..MaxInitialThreshold
    /\ evaluation_function = "pose_3d_dispersion"
    /\ min_evaluation_score = None
    /\ max_evaluation_score = default_max_evaluation_score
    /\ pose_graph = {}
    /\ stack = <<>>
    /\ subgraph_list = <<>>
    /\ evaluated = {}
    /\ rejected = {}
    /\ first_run = <<>>
    /\ poses_3d = {}
    /\ image_points_1 = NoImagePoints
    /\ image_points_2 = NoImagePoints
    /\ object_points = None

\* lines 42-85: more than one timestamp is refused, as is a frame without a
\* row (line 46 reads the timestamp of row 0); then the pairs are generated
GeneratePosePairs ==
    /\ pc = "start"
    /\ IF Cardinality(Timestamps(poses_2d)) # 1
       THEN pc' = "error" /\ pose_pairs' = pose_pairs
       ELSE pc' = "score" /\ pose_pairs' = generate_pose_pairs_timestamp(poses_2d)
    /\ UNCHANGED <<triangulationVars, poses_2d, best_score_indices, reselected, paramVars, graphVars>>

\* pose pair scores below, at and above max_pose_pair_score, and not-a-number
PairScoreValues == (0..(default_max_pose_pair_score + 1)) \cup {NaN}

\* lines 89-120: triangulation, reprojection and scoring give every pair a
\* score (not-a-number without a valid keypoint); score_pose_pairs stacks
\* the rows and fails when there is none
CalculateAndScore ==
    /\ pc = "score"
    /\ IF Len(pose_pairs) = 0
       THEN pc' = "error" /\ pose_pairs' = pose_pairs
       ELSE /\ pc' = "filter"
            /\ \E scores \in [1..Len(pose_pairs) -> PairScoreValues] :
                pose_pairs' = [n \in 1..Len(pose_pairs) |->
                    [pose_pairs[n] EXCEPT !.score = scores[n],
                                          !.keypoint_coordinates_3d = Origin]]
    /\ UNCHANGED <<triangulationVars, poses_2d, best_score_indices, reselected, paramVars, graphVars>>

\* process_pose_data.filter.remove_invalid_pose_pair_scores
remove_invalid_pose_pair_scores(df) == SelectSeq(df, LAMBDA r : r.score # NaN)

\* process_pose_data.filter.filter_pose_pairs_by_score
filter_pose_pairs_by_score(df, min_score, max_score) ==
    SelectSeq(df, LAMBDA r : /\ (min_score = None \/ r.score >= min_score)
                             /\ (max_score = None \/ r.score <= max_score))

\* lines 121-137, with min_pose_pair_score = None and max_pose_pair_score set
FilterPosePairs ==
    /\ pc = "filter"
    /\ pose_pairs' = filter_pose_pairs_by_score(
                        remove_invalid_pose_pair_scores(pose_pairs),
                        None, default_max_pose_pair_score)
    /\ pc' = "best"
    /\ UNCHANGED <<triangulationVars, poses_2d, best_score_indices, reselected, paramVars, graphVars>>

\* lines 148-160: the best matches of every camera pair, flagged match
BestMatches ==
    /\ pc = "best"
    /\ best_score_indices' = BestScoreIndices(SortIndex(pose_pairs))
    /\ pose_pairs' =
        LET kept == Loc(SortIndex(pose_pairs), best_score_indices')
        IN  [n \in 1..Len(kept) |-> [kept[n] EXCEPT !.match = TRUE]]
    /\ pc' = "identify"
    /\ UNCHANGED <<triangulationVars, poses_2d, reselected, paramVars, graphVars>>

Next ==
    \/ GeneratePosePairs
    \/ CalculateAndScore
    \/ FilterPosePairs
    \/ BestMatches
    \/ IdentifyMatchGroups
    \/ Partition
    \/ StampGroups
    \/ ConsolidatePoses3d

Spec == InitReconstruct /\ [][Next]_vars

\* ======================= properties =======================

ScoreAt(df, idx) == (CHOOSE r \in Range(df) : IndexOf(r) = idx).score

\* C1: within one camera pair group a retained pair (a, b) is a row of the
\* group whose score is minimal among the rows of a and minimal among the rows
\* of b, and no pose id is in two retained pairs, ties included.
C1_MutualBestMatch ==
    pc \in {"selected", "reselected"} =>
        /\ \A p \in best_score_indices :
            /\ \E r \in Range(pose_pairs) : IndexOf(r) = p
            /\ \A r \in Range(pose_pairs) :
                (r.pose_id_a = p[1] \/ r.pose_id_b = p[2])
                    => ScoreAt(pose_pairs, p) <= r.score
        /\ \A p, q \in best_score_indices :
            (p[1] = q[1] \/ p[2] = q[2]) => p = q

\* a full group of equal scores: one pair is retained, the others are not
C1_Witness ==
    /\ pc = "selected"
    /\ Len(pose_pairs) = Cardinality(GroupPairs)
    /\ \A r \in Range(pose_pairs) : r.score = 0
    /\ Cardinality(best_score_indices) = 1

\* C7: the selection applied to the pairs it retained, with their scores,
\* returns the same set of pairs.
C7_SelectionIdempotent ==
    pc = "reselected" => reselected = best_score_indices

\* pairs were retained and pairs were dropped, among them pairs of tied score
C7_Witness ==
    /\ pc = "reselected"
    /\ Cardinality(best_score_indices) >= 2
    /\ Len(pose_pairs) > Cardinality(best_score_indices)
    /\ \E r \in Range(pose_pairs) :
        /\ IndexOf(r) \notin best_score_indices
        /\ \E p \in best_score_indices : ScoreAt(pose_pairs, p) = r.score
    /\ reselected = best_score_indices

CameraOf(pose_id) == RowOf(poses_2d, pose_id).camera_id

FirstRowOf(camera_id) ==
    CHOOSE i \in 1..Len(poses_2d) :
        /\ poses_2d[i].camera_id = camera_id
        /\ \A j \in 1..(i - 1) : poses_2d[j].camera_id # camera_id

\* C8: for poses of one timestamp the generated pairs are, each once, the
\* pairs of poses of two different cameras with the pose of the camera that
\* appears first as side a; a row carries the cameras of its two poses.
C8_PairsAreCrossProduct ==
    pc = "score" =>
        /\ {IndexOf(r) : r \in Range(pose_pairs)} =
            {p \in (1..Len(poses_2d)) \X (1..Len(poses_2d)) :
                /\ CameraOf(p[1]) # CameraOf(p[2])
                /\ FirstRowOf(CameraOf(p[1])) < FirstRowOf(CameraOf(p[2]))}
        /\ Len(pose_pairs) = Cardinality({IndexOf(r) : r \in Range(pose_pairs)})
        /\ \A r \in Range(pose_pairs) :
            /\ r.camera_id_a = CameraOf(r.pose_id_a)
            /\ r.camera_id_b = CameraOf(r.pose_id_b)
            /\ r.camera_id_a # r.camera_id_b

\* a camera of two poses: both are paired with the pose of the other camera,
\* one of them as side a although its pose id is the greater
C8_Witness ==
    /\ pc = "score"
    /\ Len(pose_pairs) >= 2
    /\ \E i, j \in 1..Len(poses_2d) :
        i # j /\ poses_2d[i].camera_id = poses_2d[j].camera_id
    /\ \E r \in Range(pose_pairs) : r.pose_id_a > r.pose_id_b

Accepted == Range(subgraph_list)

\* C2: generate_k_edge_subgraph_list_iteratively returns, whatever the graph,
\* the initial threshold, the evaluation function and the bounds: a started
\* partition always reaches the return of the outermost call, and the depth
\* of the recursion stays below the cap of the model.
C2_PartitionTerminates ==
    /\ [](Len(stack) < MaxDepth)
    /\ (pc = "partition") ~> (pc = "stamp")

\* the outermost call has returned with nothing accepted, after candidates
\* were rejected at two thresholds at least
C2_Witness ==
    /\ pc = "stamp"
    /\ subgraph_list = <<>>
    /\ \E r, q \in rejected : q.k > r.k /\ q.nodes \subseteq r.nodes

\* C3: a returned subgraph has two nodes and an edge at least and a score
\* within the bounds that are set; a candidate whose score is out of bounds
\* is not returned, and a call is made on it, and only on such a candidate,
\* with the threshold of the caller plus 1.
C3_AcceptedWithinBounds ==
    /\ [](\A g \in Accepted :
            /\ Cardinality(g.nodes) >= 2
            /\ Subgraph(pose_graph, g.nodes) # {}
            /\ min_evaluation_score # None
                => (g.score # NaN /\ g.score >= min_evaluation_score)
            /\ max_evaluation_score # None
                => (g.score # NaN /\ g.score <= max_evaluation_score)
            /\ \A r \in rejected : r.nodes # g.nodes)
    /\ [][/\ rejected' # rejected => Len(stack') = Len(stack) + 1
          /\ (pc = "partition" /\ Len(stack') = Len(stack) + 1) =>
                \E r \in rejected' \ rejected :
                    /\ r.k = stack[Len(stack)].k
                    /\ stack'[Len(stack')].nodes = r.nodes
                    /\ stack'[Len(stack')].k = r.k + 1
                    /\ subgraph_list' = subgraph_list]_vars

\* a candidate was rejected and a part of it accepted one threshold higher,
\* with both bounds set
C3_Witness ==
    /\ pc = "stamp"
    /\ min_evaluation_score # None /\ max_evaluation_score # None
    /\ \E r \in rejected : \E g \in Accepted :
        g.k = r.k + 1 /\ g.nodes \subseteq r.nodes /\ g.nodes # r.nodes

\* C4: a subgraph accepted at threshold k is k-edge-connected in itself: its
\* own k-edge-components are the one class of all its nodes.
C4_AcceptedIsKEdgeConnected ==
    \A g \in Accepted :
        k_edge_components(g.nodes, Subgraph(pose_graph, g.nodes), g.k) = {g.nodes}

MarkedRows == {r \in Range(pose_pairs) : r.group_match}

\* C9: after identify_match_groups_iteratively the rows with group_match are
\* the matches with both poses in one accepted subgraph; the rows of the n-th
\* subgraph of the list carry the label n - 1 and one pose_3d_id of their
\* own, so the labels are 0..n-1; every other row has no label and no id.
C9_GroupsStamped ==
    pc \in {"consolidate", "done", "error"} =>
        /\ \A r \in Range(pose_pairs) :
            r.group_match <=>
                (r.match /\ \E g \in Accepted : RowEdge(r) \subseteq g.nodes)
        /\ \A r \in MarkedRows : \A i \in 1..Len(subgraph_list) :
            RowEdge(r) \subseteq subgraph_list[i].nodes
                => r.match_group_label = i - 1
        /\ {r.match_group_label : r \in MarkedRows} =
                {i - 1 : i \in 1..Len(subgraph_list)}
        /\ \A r, q \in MarkedRows :
            (r.pose_3d_id = q.pose_3d_id) <=>
                (r.match_group_label = q.match_group_label)
        /\ \A r \in Range(pose_pairs) \ MarkedRows :
            r.match_group_label = None /\ r.pose_3d_id = None
        /\ \A r \in MarkedRows : r.pose_3d_id # None

\* a subgraph was accepted and stamped, and a match outside it was not
C9_Witness ==
    /\ pc = "consolidate"
    /\ Len(subgraph_list) >= 1
    /\ \E r \in Range(pose_pairs) : r.match /\ ~r.group_match
    /\ \E r \in MarkedRows : r.match_group_label = 0 /\ r.pose_3d_id # None

\* C10: no two rows returned by consolidate_poses_3d have the same
\* match_group_label, nor the same pose_3d_id.
C10_LabelsOneToOne ==
    pc = "done" =>
        \A p, q \in poses_3d :
            (p.match_group_label = q.match_group_label
                \/ p.pose_3d_id = q.pose_3d_id) => p = q

\* two 3D poses were consolidated
C10_Witness ==
    /\ pc = "done"
    /\ Cardinality(poses_3d) = 2
    /\ Len(subgraph_list) = 2

\* two cameras with one pose each, the one pair of them scored within the
\* bounds, and the run at its end
TwoCamerasOnePoseEach ==
    /\ pc \in {"done", "error"}
    /\ Len(poses_2d) = 2
    /\ poses_2d[1].camera_id # poses_2d[2].camera_id
    /\ Len(pose_pairs) = 1
    /\ pose_pairs[1].match

OneGroupOnePose3D ==
    /\ pc = "done"
    /\ Len(subgraph_list) = 1
    /\ subgraph_list[1].nodes = {poses_2d[1].pose_id, poses_2d[2].pose_id}
    /\ pose_pairs[1].group_match
    /\ Cardinality(poses_3d) = 1

C6_MonotoneInThreshold ==
    first_run # <<>> =>
        \A g2 \in Accepted : \A g1 \in Range(first_run[1]) :
            g1.nodes \cap g2.nodes # {}
                => Cardinality(g2.nodes) <= Cardinality(g1.nodes)

\* the valid values of coordinate c among the group matches of a 3D pose
GroupValues(id, c) ==
    LET rows == {n \in 1..Len(pose_pairs) :
                    /\ pose_pairs[n].group_match
                    /\ pose_pairs[n].pose_3d_id = id
                    /\ pose_pairs[n].keypoint_coordinates_3d[c] # NaN}
    IN  [n \in rows |-> pose_pairs[n].keypoint_coordinates_3d[c]]

\* m is the median of the values xs: fewer than half of them are below m and
\* fewer than half above, or m is midway between two values that have half
\* of the values at or below the one and half at or above the other
IsMedianOf(m, xs) ==
    LET n == Cardinality(DOMAIN xs)
        below(v) == Cardinality({i \in DOMAIN xs : xs[i] < v})
        above(v) == Cardinality({i \in DOMAIN xs : xs[i] > v})
    IN  IF n = 0 THEN m = NaN
        ELSE /\ m # NaN
             /\ \/ 2 * below(m) < n /\ 2 * above(m) < n
                \/ \E i, j \in DOMAIN xs :
                    /\ xs[i] < xs[j]
                    /\ 2 * (n - above(xs[i])) = n
                    /\ 2 * (n - below(xs[j])) = n
                    /\ 2 * m = xs[i] + xs[j]

\* C11: every coordinate of a returned Pose3D is the median of that
\* coordinate over the group_match pairs with its pose_3d_id, not-a-number
\* entries left out; the pairs of other groups and the unmarked pairs do not
\* count.
C11_CoordinatewiseMedian ==
    pc = "done" =>
        \A p \in poses_3d : \A c \in CoordinateIndex :
            IsMedianOf(p.keypoint_coordinates_3d[c], GroupValues(p.pose_3d_id, c))

\* a 3D pose of two pairs: one coordinate midway between their two values,
\* the other the one valid value beside a not-a-number; an unmarked pair with
\* a lower value is left out
C11_Witness ==
    /\ pc = "done"
    /\ \E p \in poses_3d : \E c, d \in CoordinateIndex :
        /\ p.keypoint_coordinates_3d[c] = 1
        /\ p.keypoint_coordinates_3d[d] = 2
        /\ \E r \in Range(pose_pairs) :
            /\ r.pose_3d_id = p.pose_3d_id
            /\ r.keypoint_coordinates_3d[d] = NaN
        /\ \E r \in Range(pose_pairs) :
            ~r.group_match /\ r.keypoint_coordinates_3d[d] = 0

MixedTimestamps ==
    \E i, j \in 1..Len(poses_2d) :
        /\ poses_2d[i].timestamp # poses_2d[j].timestamp
        /\ poses_2d[i].camera_id # poses_2d[j].camera_id

\* C12: 2D poses of more than one timestamp end the run with an error before
\* a pose pair is generated: no pose pair, no graph, no match group and no
\* Pose3D comes of them.
C12_MixedTimestampsRefused ==
    (\E i, j \in 1..Len(poses_2d) :
            poses_2d[i].timestamp # poses_2d[j].timestamp)
        => /\ pc \in {"start", "error"}
           /\ pose_pairs = <<>>
           /\ pose_graph = {}
           /\ subgraph_list = <<>>
           /\ poses_3d = {}

\* poses of two cameras at two timestamps were refused
C12_Witness == pc = "error" /\ MixedTimestamps

\* C13: triangulate_image_points raises the shape error, and returns no 3D
\* points, for two arrays of image points of different lengths neither of
\* which is empty; when either array is empty it returns an empty set of 3D
\* points without error, whatever the length of the other.
C13_MismatchOfNonEmptyRefused ==
    pc # "triangulate" =>
        IF image_points_1[1] = 0 \/ image_points_2[1] = 0
        THEN pc = "triangulated" /\ object_points = <<0, 3>>
        ELSE (image_points_1[1] # image_points_2[1])
                <=> (pc = "error" /\ object_points = None)

\* two arrays of different lengths, neither empty, were refused
C13_Witness ==
    /\ pc = "error"
    /\ image_points_1[1] > 0 /\ image_points_2[1] > 0
    /\ image_points_1[1] # image_points_2[1]

\* C13 as the specification states it: arrays of different lengths are
\* refused, whatever the lengths.
C13_AsStated ==
    (pc # "triangulate" /\ image_points_1[1] # image_points_2[1])
        => (pc = "error" /\ object_points = None)

Triangle == {{1, 2}, {1, 3}, {2, 3}}

\* C15: three poses on three cameras matched pairwise, with a dispersion
\* within the bounds, and a pose on a fourth camera without a match: with
\* the initial threshold 2 there is one match group, of the three pairs; the
\* fourth pose is in no group and in no Pose3D.
C15_TriangleIsOneGroup ==
    (/\ pc \in {"stamp", "consolidate", "done"}
     /\ {RowEdge(r) : r \in {q \in Range(pose_pairs) : q.match}} = Triangle
     /\ initial_edge_threshold = default_initial_edge_threshold
     /\ \A e \in evaluated : e[1] = {1, 2, 3} => ScoreInBounds(e[2]))
        => /\ Len(subgraph_list) = 1
           /\ subgraph_list[1].nodes = {1, 2, 3}
           /\ pc # "stamp" =>
                {RowEdge(r) : r \in MarkedRows} = Triangle
           /\ pc = "done" => Cardinality(poses_3d) = 1

\* the triangle was consolidated into its Pose3D, the pairs of the fourth
\* pose unmarked
C15_Witness ==
    /\ pc = "done"
    /\ pose_graph = Triangle
    /\ initial_edge_threshold = default_initial_edge_threshold
    /\ Cardinality(poses_3d) = 1
    /\ \E r \in Range(pose_pairs) : 4 \in RowEdge(r) /\ ~r.group_match

\* C16: consolidate_poses_3d returns one Pose3D for each pose_3d_id of the
\* group_match pairs, whatever their number: without a group_match pair it
\* returns an empty frame and raises no error.
C16_OnePose3DPerId ==
    pc \in {"done", "error"} =>
        /\ pc = "done"
        /\ {p.pose_3d_id : p \in poses_3d} = {r.pose_3d_id : r \in MarkedRows}
        /\ Cardinality(poses_3d) = Cardinality({r.pose_3d_id : r \in MarkedRows})

\* C17: the match groups of one graph have no pose in common, two by two,
\* so no pose pair is in two groups and the stamping of a group leaves the
\* label and the pose_3d_id of the other groups as they are.
C17_GroupsDisjoint ==
    /\ \A i, j \in 1..Len(subgraph_list) :
            i # j => subgraph_list[i].nodes \cap subgraph_list[j].nodes = {}
    /\ \A r \in Range(pose_pairs) :
            Cardinality({i \in 1..Len(subgraph_list) :
                            RowEdge(r) \subseteq subgraph_list[i].nodes}) <= 1
    /\ pc \in {"consolidate", "done", "error"} =>
            \A i \in 1..Len(subgraph_list) : \A r \in Range(pose_pairs) :
                (r.match /\ RowEdge(r) \subseteq subgraph_list[i].nodes)
                    => (r.match_group_label = LabelOf(i) /\ r.pose_3d_id = uuid4(i))

\* two groups were accepted and stamped
C17_Witness ==
    /\ pc = "consolidate"
    /\ Len(subgraph_list) = 2
    /\ \E r, q \in MarkedRows :
            r.match_group_label = 0 /\ q.match_group_label = 1

====
